---- MODULE Spec2Model ----
(***************************************************************************)
(* Model of the sysex-toolkit package: the unknown-format analyzer         *)
(* (sysex_toolkit/analyzer.py), the batch processor                        *)
(* (sysex_toolkit/batch.py), and the parameter codec working on the        *)
(* shipped Access Virus layout (sysex_toolkit/configs/access_virus.json).  *)
(* Each component has its own specification; the variables of the other    *)
(* components stay at their idle values.                                   *)
(***************************************************************************)
EXTENDS Integers, Sequences, FiniteSets, TLC

VARIABLES
    \* ---- analyzer: SysExAnalyzer.analyze_unknown_sysex
    data,            \* bytes read from the file
    a_readable,      \* whether open(file_path, 'rb') succeeds
    file_size,       \* analysis['file_size']
    sysex_messages,  \* analysis['sysex_messages']
    current_pos,     \* scan position
    message_count,   \* running message counter
    a_pc,            \* "start" | "loop" | "done" | "raised"
    \* ---- batch processor: SysExBatchProcessor.batch_decode
    fs,               \* the input directory: file name -> content
    dir_exists,       \* whether input_dir can be listed
    decoder,          \* what library.get_decoder(synth_format) does: "decoder" | "none" | "raises"
    output_format,    \* the output_format argument
    sysex_files,      \* list(glob('*.syx')) + list(glob('*.json'))
    idx,              \* number of entries of sysex_files the for loop has handled
    processed_files,  \* results['processed_files']
    failed_files,     \* results['failed_files']
    total_presets,    \* results['total_presets']
    b_pc,             \* "call" | "loop" | "done" | "raised"
    b_earlier,        \* the input files each earlier call on the directory listed
    \* ---- parameter codec: encode / decode of one message
    c_schema,    \* the Schema Model's parameters: name -> descriptor
    c_frame,     \* the Schema Model's total_length and Device Identifier
    c_header,    \* the message's length and Device Identifier
    c_template,  \* the message body the encode call started from
    c_body,      \* the message body: byte offset -> byte, at the schema's offsets
    c_values,    \* the presetValues argument of the encode call: (name, raw value) entries
    c_pending,   \* presetValues entries the encode call has still to write
    c_out,       \* what decode returned
    c_pc,        \* "encode" | "message" | "decoded"
    \* ---- schema registry: SysExLibrary
    r_by_id,   \* registry index: Device Identifier -> schema
    r_by_key,  \* registry index: string key -> schema
    r_arg,     \* the schema argument of the last register call
    r_error,   \* error of the last register call, "" when it succeeded
    r_calls,   \* number of explicit register calls made
    r_pc,      \* "new" before the initial load, "ready" after it
    \* ---- message framer: frame(bytes)
    f_messages,  \* the Framed Messages produced so far
    f_start,     \* offset of the start marker of the open message, -1 outside a message
    f_pos,       \* offset of the next byte to scan
    f_warnings,  \* side-channel count of framing warnings
    f_pc,        \* "idle" | "scan" | "done"
    \* ---- feature extraction: the wobble_features loop
    e_preset,    \* preset["parameters"] as .items() iterates it: (name, param_data) entries
    e_order,     \* parameterOrder: the order the caller wants the features in
    e_pos,       \* number of items of the mapping iterated over
    e_features,  \* wobble_features
    e_pc,        \* "idle" / "loop" / "done"
    \* ---- command line: installed entry points
    k_project,    \* the pyproject.toml the package was installed from, "" before
    k_installed,  \* the entry points on the path
    k_log,        \* the commands typed so far, each with what the shell did
    \* ---- dataset store: datasetSlice and its thunks
    ds_datasets,           \* state.datasets
    ds_currentDataset,     \* state.currentDataset
    ds_preprocessingJobs,  \* state.preprocessingJobs
    ds_loading,            \* state.loading
    ds_error,              \* state.error, "null" for null
    ds_inflight,           \* the thunk requests dispatched and not yet settled
    ds_dispatched,         \* number of thunk requests dispatched so far
    \* ---- model store: modelSlice
    ms_models,        \* state.models
    ms_currentModel,  \* state.currentModel
    ms_loading,       \* state.loading
    ms_error,         \* state.error, "null" for null
    \* ---- navigation: Sidebar and the routes of App
    n_pathname,       \* location.pathname, as its segments
    n_element,        \* the element the matching route renders
    n_expandedItems,  \* expandedItems of the Sidebar
    n_sidebarOpen,    \* sidebarOpen of App
    \* ---- startup script: startnew.sh from the trap on
    s_pc,            \* "trap", "backend", "probe", "frontend", "wait" or "exited"
    s_i,             \* i of the backend wait loop
    s_trapped,       \* trap cleanup EXIT INT TERM is set
    s_BACKEND_PID,   \* $BACKEND_PID: "" or the process it names
    s_FRONTEND_PID,  \* $FRONTEND_PID: "" or the process it names
    s_backend,       \* the backend process: "none", "starting", "up" or "gone"
    s_frontend,      \* the frontend process: "none", "running" or "gone"
    s_probed,        \* a probe of the backend has succeeded
    s_status,        \* exit status of the script, -1 while it runs
    s_signalled,     \* the kills cleanup has issued: (trap condition, process)
    s_interrupts,    \* number of INT or TERM signals received
    \* ---- package creation script
    p_package,     \* package_files.py: section name -> "missing", "open" or "closed"
    p_has_source,  \* ../sysex_toolkit.py exists
    p_step,        \* number of steps of the script carried out
    p_files,       \* the files created: name -> what was written
    p_reported,    \* the sections reported as not found
    p_status       \* exit status of the script, -1 while it runs

varsA == <<data, a_readable, file_size, sysex_messages, current_pos,
           message_count, a_pc>>

varsB == <<fs, dir_exists, decoder, output_format, sysex_files, idx,
           processed_files, failed_files, total_presets, b_pc, b_earlier>>

varsC == <<c_schema, c_frame, c_header, c_template, c_body, c_values, c_pending,
           c_out, c_pc>>

varsR == <<r_by_id, r_by_key, r_arg, r_error, r_calls, r_pc>>

varsF == <<f_messages, f_start, f_pos, f_warnings, f_pc>>

varsE == <<e_preset, e_order, e_pos, e_features, e_pc>>

varsK == <<k_project, k_installed, k_log>>

varsD == <<ds_datasets, ds_currentDataset, ds_preprocessingJobs, ds_loading, ds_error, ds_inflight, ds_dispatched>>

varsM == <<ms_models, ms_currentModel, ms_loading, ms_error>>

varsN == <<n_pathname, n_element, n_expandedItems, n_sidebarOpen>>

varsS == <<s_pc, s_i, s_trapped, s_BACKEND_PID, s_FRONTEND_PID, s_backend, s_frontend, s_probed, s_status, s_signalled, s_interrupts>>

varsP == <<p_package, p_has_source, p_step, p_files, p_reported, p_status>>

vars == <<varsA, varsB, varsC, varsR, varsF, varsE, varsK, varsD, varsM, varsN, varsS, varsP>>

\* what the actions of one component leave alone
restA == <<varsB, varsC, varsR, varsF, varsE, varsK, varsD, varsM, varsN, varsS, varsP>>
restB == <<varsA, varsC, varsR, varsF, varsE, varsK, varsD, varsM, varsN, varsS, varsP>>
restC == <<varsA, varsB, varsR, varsF, varsE, varsK, varsD, varsM, varsN, varsS, varsP>>
restR == <<varsA, varsB, varsC, varsF, varsE, varsK, varsD, varsM, varsN, varsS, varsP>>
restF == <<varsA, varsB, varsC, varsR, varsE, varsK, varsD, varsM, varsN, varsS, varsP>>
restE == <<varsA, varsB, varsC, varsR, varsF, varsK, varsD, varsM, varsN, varsS, varsP>>
restK == <<varsA, varsB, varsC, varsR, varsF, varsE, varsD, varsM, varsN, varsS, varsP>>
restD == <<varsA, varsB, varsC, varsR, varsF, varsE, varsK, varsM, varsN, varsS, varsP>>
restM == <<varsA, varsB, varsC, varsR, varsF, varsE, varsK, varsD, varsN, varsS, varsP>>
restN == <<varsA, varsB, varsC, varsR, varsF, varsE, varsK, varsD, varsM, varsS, varsP>>
restS == <<varsA, varsB, varsC, varsR, varsF, varsE, varsK, varsD, varsM, varsN, varsP>>
restP == <<varsA, varsB, varsC, varsR, varsF, varsE, varsK, varsD, varsM, varsN, varsS>>

\* a component that is not called
IdleA ==
    /\ data = <<>>
    /\ a_readable = FALSE
    /\ file_size = -1
    /\ sysex_messages = <<>>
    /\ current_pos = 0
    /\ message_count = 0
    /\ a_pc = "idle"

IdleB ==
    /\ fs = <<>>
    /\ dir_exists = FALSE
    /\ decoder = ""
    /\ output_format = ""
    /\ sysex_files = <<>>
    /\ idx = 0
    /\ processed_files = <<>>
    /\ failed_files = <<>>
    /\ total_presets = 0
    /\ b_pc = "idle"
    /\ b_earlier = <<>>

IdleC ==
    /\ c_schema = <<>>
    /\ c_frame = <<>>
    /\ c_header = <<>>
    /\ c_template = <<>>
    /\ c_body = <<>>
    /\ c_values = <<>>
    /\ c_pending = <<>>
    /\ c_out = <<>>
    /\ c_pc = "idle"

IdleR ==
    /\ r_by_id = <<>>
    /\ r_by_key = <<>>
    /\ r_arg = <<>>
    /\ r_error = ""
    /\ r_calls = 0
    /\ r_pc = "idle"

IdleF ==
    /\ f_messages = <<>>
    /\ f_start = -1
    /\ f_pos = 0
    /\ f_warnings = 0
    /\ f_pc = "idle"

IdleE ==
    /\ e_preset = <<>>
    /\ e_order = <<>>
    /\ e_pos = 0
    /\ e_features = <<>>
    /\ e_pc = "idle"

IdleK ==
    /\ k_project = ""
    /\ k_installed = {}
    /\ k_log = <<>>

IdleD ==
    /\ ds_datasets = <<>>
    /\ ds_currentDataset = <<>>
    /\ ds_preprocessingJobs = <<>>
    /\ ds_loading = FALSE
    /\ ds_error = "null"
    /\ ds_inflight = {}
    /\ ds_dispatched = 0

IdleM ==
    /\ ms_models = <<>>
    /\ ms_currentModel = <<>>
    /\ ms_loading = FALSE
    /\ ms_error = "null"

IdleN ==
    /\ n_pathname = <<>>
    /\ n_element = ""
    /\ n_expandedItems = <<>>
    /\ n_sidebarOpen = FALSE

IdleS ==
    /\ s_pc = "idle"
    /\ s_i = 0
    /\ s_trapped = FALSE
    /\ s_BACKEND_PID = ""
    /\ s_FRONTEND_PID = ""
    /\ s_backend = "none"
    /\ s_frontend = "none"
    /\ s_probed = FALSE
    /\ s_status = -1
    /\ s_signalled = {}
    /\ s_interrupts = 0

IdleP ==
    /\ p_package = <<>>
    /\ p_has_source = FALSE
    /\ p_step = 0
    /\ p_files = <<>>
    /\ p_reported = {}
    /\ p_status = -1

----------------------------------------------------------------------------
\* Bounds and program constants of the analyzer

MaxLen == 6

StartMarker == 240
EndMarker == 247
PreviewLen == 16

\* Byte values the inputs are drawn from: both markers and one noise byte.
ByteSamples == {StartMarker, EndMarker, 65}

RECURSIVE SeqsUpTo(_, _)
SeqsUpTo(S, n) ==
    IF n = 0 THEN {<<>>}
    ELSE LET shorter == SeqsUpTo(S, n - 1)
         IN  shorter \cup {Append(s, x) : s \in {t \in shorter : Len(t) = n - 1}, x \in S}

\* bytes.find(value, from): lowest 0-based index >= from holding value, else -1
RECURSIVE Find(_, _, _)
Find(d, value, from) ==
    IF from >= Len(d) THEN -1
    ELSE IF d[from + 1] = value THEN from
    ELSE Find(d, value, from + 1)

\* d[lo:hi] with Python's clipping of hi to len(d); lo, hi are 0-based
Slice(d, lo, hi) ==
    LET h == IF hi > Len(d) THEN Len(d) ELSE hi
    IN  IF lo >= h THEN <<>> ELSE [k \in 1..(h - lo) |-> d[lo + k]]

\* start_pos = data.find(0xF0, current_pos)
FindStart(d, cur) == Find(d, StartMarker, cur)

\* The same search started at the scan position instead of the start marker.
FindEndFromScan(d, cur, start) == Find(d, EndMarker, cur)

\* end_pos = data.find(0xF7, start_pos)
FindEnd(d, cur, start) == Find(d, EndMarker, start)

\* The scan resumed at the start marker of the message just recorded.
NextScanPosAtStart(start, end) == start

\* current_pos = end_pos + 1
NextScanPos(start, end) == end + 1

\* message_info taken from data[start_pos:end_pos], without the end marker
MessageInfoExclusive(d, n, start, end) ==
    LET message == Slice(d, start, end)
    IN  [message_id      |-> n,
         start_offset    |-> start,
         length          |-> Len(message),
         manufacturer_id |-> IF Len(message) > 3 THEN Slice(message, 1, 4) ELSE <<>>,
         hex_preview     |-> [bytes    |-> Slice(message, 0, PreviewLen),
                              ellipsis |-> Len(message) > PreviewLen]]

\* message_info for message number n found at [start, end]
MessageInfo(d, n, start, end) ==
    LET message == Slice(d, start, end + 1)
    IN  [message_id      |-> n,
         start_offset    |-> start,
         length          |-> Len(message),
         manufacturer_id |-> IF Len(message) > 3 THEN Slice(message, 1, 4) ELSE <<>>,
         hex_preview     |-> [bytes    |-> Slice(message, 0, PreviewLen),
                              ellipsis |-> Len(message) > PreviewLen]]

InitA ==
    /\ IdleB /\ IdleC /\ IdleR /\ IdleF /\ IdleE /\ IdleK /\ IdleD /\ IdleM /\ IdleN /\ IdleS /\ IdleP
    /\ data \in SeqsUpTo(ByteSamples, MaxLen)
    /\ a_readable \in BOOLEAN
    /\ file_size = -1
    /\ sysex_messages = <<>>
    /\ current_pos = 0
    /\ message_count = 0
    /\ a_pc = "start"

\* with open(file_path, 'rb') as f: data = f.read(); analysis = {...}
AnalyzeOpen ==
    /\ a_pc = "start"
    /\ IF a_readable
       THEN /\ file_size' = Len(data)
            /\ a_pc' = "loop"
       ELSE /\ file_size' = file_size
            /\ a_pc' = "raised"
    /\ UNCHANGED <<data, a_readable, sysex_messages, current_pos, message_count>>
    /\ UNCHANGED restA

\* one iteration of: while current_pos < len(data)
AnalyzeStep ==
    /\ a_pc = "loop"
    /\ current_pos < Len(data)
    /\ LET start_pos == FindStart(data, current_pos)
           end_pos   == FindEnd(data, current_pos, start_pos)
       IN  IF start_pos = -1 \/ end_pos = -1
           THEN /\ a_pc' = "done"
                /\ UNCHANGED <<sysex_messages, current_pos, message_count>>
           ELSE /\ message_count' = message_count + 1
                /\ sysex_messages' =
                     Append(sysex_messages,
                            MessageInfo(data, message_count + 1, start_pos, end_pos))
                /\ current_pos' = NextScanPos(start_pos, end_pos)
                /\ a_pc' = "loop"
    /\ UNCHANGED <<data, a_readable, file_size>>
    /\ UNCHANGED restA

\* the loop condition fails: return analysis
AnalyzeReturn ==
    /\ a_pc = "loop"
    /\ current_pos >= Len(data)
    /\ a_pc' = "done"
    /\ UNCHANGED <<data, a_readable, file_size, sysex_messages, current_pos,
                   message_count>>
    /\ UNCHANGED restA

NextA == AnalyzeOpen \/ AnalyzeStep \/ AnalyzeReturn

SpecAnalyzer == InitA /\ [][NextA]_vars

----------------------------------------------------------------------------
\* Batch processor

MaxPresets == 1

\* A file name is stem + extension; the stem is a base name followed by
\* `decoded` copies of the suffix "_decoded".
FileName(base, decoded, ext) == [base |-> base, decoded |-> decoded, ext |-> ext]

\* Names a directory may hold when batch_decode is called: two .syx inputs,
\* a .json input sharing a stem with one of them, and an output of an earlier run.
InitNames ==
    {FileName("a", 0, "syx"), FileName("b", 0, "syx"),
     FileName("a", 0, "json"), FileName("a", 1, "json")}

\* File contents, by what decoder.decode_file makes of them: it raises
\* ("bad") or returns n presets (n = 0 covers an empty list and None).
\* holds names the input whose presets a written output file holds.
Content(kind, n, holds) == [kind |-> kind, n |-> n, holds |-> holds]

NoFile == FileName("", 0, "")

InputContents ==
    {Content("bad", 0, NoFile)} \cup {Content("presets", n, NoFile) : n \in 0..MaxPresets}

Directories ==
    UNION {[present -> InputContents] : present \in SUBSET InitNames}

\* decoder.decode_file(file_path): -1 when the call raises (the file is
\* rejected, or decoder is None), else the number of presets returned
DecodeFile(dec, content) ==
    IF dec = "none" \/ content.kind = "bad" THEN -1 ELSE content.n

\* input_dir / f"{file_path.stem}_decoded.json"
OutputPath(file) == FileName(file.base, file.decoded + 1, "json")

\* input_dir.glob('*.' + ext), as a set
Glob(dir, ext) == {f \in DOMAIN dir : f.ext = ext}

\* the orders in which a directory listing may yield the files of a set
RECURSIVE Listings(_)
Listings(S) ==
    IF S = {} THEN {<<>>}
    ELSE UNION {{<<f>> \o rest : rest \in Listings(S \ {f})} : f \in S}

\* sysex_files = list(input_dir.glob('*.syx')) + list(input_dir.glob('*.json'))
SysexFiles(dir, exists) ==
    IF exists
    THEN {syx \o json : syx \in Listings(Glob(dir, "syx")), json \in Listings(Glob(dir, "json"))}
    ELSE {<<>>}

\* A file that decoded to no presets is skipped instead of recorded.
RecordProcessedNonEmpty(processed, file, n) ==
    IF n = 0 THEN processed
    ELSE Append(processed, [input_file |-> file, preset_count |-> n])

\* results['processed_files'].append({...})
RecordProcessed(processed, file, n) ==
    Append(processed, [input_file |-> file, preset_count |-> n])

\* The failed entry replaces the list instead of being appended to it.
RecordFailedOnly(failed, file, error) == <<[file |-> file, error |-> error]>>

\* The failed entry is put at the head of the list instead of its end.
RecordFailedFirst(failed, file, error) ==
    <<[file |-> file, error |-> error]>> \o failed

\* results['failed_files'].append({...})
RecordFailed(failed, file, error) ==
    Append(failed, [file |-> file, error |-> error])

\* The total is assigned instead of added to.
SetPresets(total, n) == n

\* results['total_presets'] += len(presets) if presets else 0
AddPresets(total, n) == total + n

\* the directory after path has been written with content
WriteFile(dir, path, content) ==
    [f \in DOMAIN dir \cup {path} |-> IF f = path THEN content ELSE dir[f]]

\* What the decoder makes of a file json.dump wrote in full (n presets of
\* input file): it reads the n presets back, or rejects the file.
DumpContents(file, n) == {Content("presets", n, file), Content("bad", n, file)}

\* What the decoder makes of a file that open(..., 'w') truncated and
\* json.dump did not finish: nothing, or it rejects the file.
PartialContents == {Content("presets", 0, NoFile), Content("bad", 0, NoFile)}

InitB ==
    /\ IdleA /\ IdleC /\ IdleR /\ IdleF /\ IdleE /\ IdleK /\ IdleD /\ IdleM /\ IdleN /\ IdleS /\ IdleP
    /\ dir_exists \in BOOLEAN
    /\ fs \in (IF dir_exists THEN Directories ELSE {<<>>})
    /\ decoder \in {"decoder", "none", "raises"}
    /\ output_format \in {"json", "yaml"}
    /\ sysex_files = <<>>
    /\ idx = 0
    /\ processed_files = <<>>
    /\ failed_files = <<>>
    /\ total_presets = 0
    /\ b_pc = "call"
    /\ b_earlier = <<>>

\* decoder = self.library.get_decoder(synth_format) raises: nothing catches it
BatchNoDecoder ==
    /\ b_pc = "call"
    /\ decoder = "raises"
    /\ b_pc' = "raised"
    /\ UNCHANGED <<fs, dir_exists, decoder, output_format, sysex_files, idx,
                   processed_files, failed_files, total_presets>>
    /\ UNCHANGED b_earlier
    /\ UNCHANGED restB

\* get_decoder returns; results = {...}; sysex_files = ...
BatchStart ==
    /\ b_pc = "call"
    /\ decoder # "raises"
    /\ processed_files' = <<>>
    /\ failed_files' = <<>>
    /\ total_presets' = 0
    /\ sysex_files' \in SysexFiles(fs, dir_exists)
    /\ idx' = 0
    /\ b_pc' = "loop"
    /\ UNCHANGED <<fs, dir_exists, decoder, output_format>>
    /\ UNCHANGED b_earlier
    /\ UNCHANGED restB

\* loop body, decode_file raises: except Exception records the file as failed
BatchDecodeFails ==
    /\ b_pc = "loop"
    /\ idx < Len(sysex_files)
    /\ LET file_path == sysex_files[idx + 1]
       IN  /\ DecodeFile(decoder, fs[file_path]) = -1
           /\ failed_files' = RecordFailed(failed_files, file_path, "decode")
    /\ idx' = idx + 1
    /\ UNCHANGED <<fs, dir_exists, decoder, output_format, sysex_files,
                   processed_files, total_presets, b_pc>>
    /\ UNCHANGED b_earlier
    /\ UNCHANGED restB

\* loop body, nothing to write: no presets, or output_format is not 'json'
BatchDecodeOnly ==
    /\ b_pc = "loop"
    /\ idx < Len(sysex_files)
    /\ LET file_path == sysex_files[idx + 1]
           presets   == DecodeFile(decoder, fs[file_path])
       IN  /\ presets >= 0
           /\ ~(presets > 0 /\ output_format = "json")
           /\ processed_files' = RecordProcessed(processed_files, file_path, presets)
           /\ total_presets' = AddPresets(total_presets, presets)
    /\ idx' = idx + 1
    /\ UNCHANGED <<fs, dir_exists, decoder, output_format, sysex_files,
                   failed_files, b_pc>>
    /\ UNCHANGED b_earlier
    /\ UNCHANGED restB

\* loop body, the presets are written to output_path in full
BatchDecodeWrite ==
    /\ b_pc = "loop"
    /\ idx < Len(sysex_files)
    /\ LET file_path == sysex_files[idx + 1]
           presets   == DecodeFile(decoder, fs[file_path])
       IN  /\ presets > 0
           /\ output_format = "json"
           /\ \E written \in DumpContents(file_path, presets) :
                  fs' = WriteFile(fs, OutputPath(file_path), written)
           /\ processed_files' = RecordProcessed(processed_files, file_path, presets)
           /\ total_presets' = AddPresets(total_presets, presets)
    /\ idx' = idx + 1
    /\ UNCHANGED <<dir_exists, decoder, output_format, sysex_files,
                   failed_files, b_pc>>
    /\ UNCHANGED b_earlier
    /\ UNCHANGED restB

\* loop body, open(output_path, 'w') raises: the directory is as it was
BatchOpenFails ==
    /\ b_pc = "loop"
    /\ idx < Len(sysex_files)
    /\ LET file_path == sysex_files[idx + 1]
           presets   == DecodeFile(decoder, fs[file_path])
       IN  /\ presets > 0
           /\ output_format = "json"
           /\ failed_files' = RecordFailed(failed_files, file_path, "open")
    /\ idx' = idx + 1
    /\ UNCHANGED <<fs, dir_exists, decoder, output_format, sysex_files,
                   processed_files, total_presets, b_pc>>
    /\ UNCHANGED b_earlier
    /\ UNCHANGED restB

\* loop body, json.dump raises after open(output_path, 'w') truncated the file
BatchDumpFails ==
    /\ b_pc = "loop"
    /\ idx < Len(sysex_files)
    /\ LET file_path == sysex_files[idx + 1]
           presets   == DecodeFile(decoder, fs[file_path])
       IN  /\ presets > 0
           /\ output_format = "json"
           /\ \E partial \in PartialContents :
                  fs' = WriteFile(fs, OutputPath(file_path), partial)
           /\ failed_files' = RecordFailed(failed_files, file_path, "dump")
    /\ idx' = idx + 1
    /\ UNCHANGED <<dir_exists, decoder, output_format, sysex_files,
                   processed_files, total_presets, b_pc>>
    /\ UNCHANGED b_earlier
    /\ UNCHANGED restB

\* the for loop is exhausted: return results
BatchReturn ==
    /\ b_pc = "loop"
    /\ idx = Len(sysex_files)
    /\ b_pc' = "done"
    /\ UNCHANGED <<fs, dir_exists, decoder, output_format, sysex_files, idx,
                   processed_files, failed_files, total_presets>>
    /\ UNCHANGED b_earlier
    /\ UNCHANGED restB

NextB ==
    \/ BatchNoDecoder
    \/ BatchStart
    \/ BatchDecodeFails
    \/ BatchDecodeOnly
    \/ BatchDecodeWrite
    \/ BatchOpenFails
    \/ BatchDumpFails
    \/ BatchReturn

SpecBatch == InitB /\ [][NextB]_vars

Range(list) == {list[k] : k \in DOMAIN list}

\* a first call for a registered format (or one get_decoder raises for),
\* writing json, on an existing directory that holds no output of an
\* earlier run
InitRerun ==
    /\ InitB
    /\ dir_exists
    /\ \A f \in DOMAIN fs : f.decoded = 0
    /\ decoder \in {"decoder", "raises"}
    /\ output_format = "json"

\* batch_decode has returned and is called once more with the same
\* arguments, on the directory as the first call left it
BatchAgain ==
    /\ b_pc = "done"
    /\ b_earlier = <<>>
    /\ b_earlier' = Append(b_earlier, Range(sysex_files))
    /\ b_pc' = "call"
    /\ UNCHANGED <<fs, dir_exists, decoder, output_format, sysex_files, idx,
                   processed_files, failed_files, total_presets>>
    /\ UNCHANGED restB

\* batch_decode run twice on one directory
SpecRerun == InitRerun /\ [][NextB \/ BatchAgain]_vars

----------------------------------------------------------------------------
\* Parameter codec

MaxFieldWidth == 3

Descriptor(offset, mask, shift, lo, hi, category, cc) ==
    [byte_offset |-> offset, bit_mask |-> mask, bit_shift |-> shift,
     value_range |-> <<lo, hi>>, category |-> category, cc_number |-> cc,
     data_type |-> "uint8"]

\* "parameters" of configs/access_virus.json with filter_cutoff's bit_mask 15
AccessVirusNarrowMask ==
    [name \in {"filter_cutoff", "filter_resonance", "filter_env_amount",
               "lfo1_rate", "lfo1_amount"} |->
        CASE name = "filter_cutoff"     -> Descriptor(40, 15, 0, 0, 127, "filter", 74)
          [] name = "filter_resonance"  -> Descriptor(41, 255, 0, 0, 127, "filter", 71)
          [] name = "filter_env_amount" -> Descriptor(42, 255, 0, 0, 127, "filter", 72)
          [] name = "lfo1_rate"         -> Descriptor(70, 255, 0, 0, 127, "lfo", 76)
          [] name = "lfo1_amount"       -> Descriptor(72, 255, 0, 0, 127, "lfo", 77)]

\* "parameters" of configs/access_virus.json
AccessVirusParameters ==
    [name \in {"filter_cutoff", "filter_resonance", "filter_env_amount",
               "lfo1_rate", "lfo1_amount"} |->
        CASE name = "filter_cutoff"     -> Descriptor(40, 255, 0, 0, 127, "filter", 74)
          [] name = "filter_resonance"  -> Descriptor(41, 255, 0, 0, 127, "filter", 71)
          [] name = "filter_env_amount" -> Descriptor(42, 255, 0, 0, 127, "filter", 72)
          [] name = "lfo1_rate"         -> Descriptor(70, 255, 0, 0, 127, "lfo", 76)
          [] name = "lfo1_amount"       -> Descriptor(72, 255, 0, 0, 127, "lfo", 77)]

\* "total_length" and "header" of configs/access_virus.json: manufacturer_id,
\* device_id and model_id make the Device Identifier
TotalLength == 256

AccessVirusId == <<0, 32, 51, 1, 0>>

ByteValues == 0..255

RECURSIVE Pow2(_)
Pow2(k) == IF k = 0 THEN 1 ELSE 2 * Pow2(k - 1)

RECURSIVE BitAnd(_, _)
BitAnd(a, b) ==
    IF a = 0 \/ b = 0 THEN 0
    ELSE (a % 2) * (b % 2) + 2 * BitAnd(a \div 2, b \div 2)

RECURSIVE BitOr(_, _)
BitOr(a, b) ==
    IF a = 0 THEN b
    ELSE IF b = 0 THEN a
    ELSE (IF a % 2 = 1 \/ b % 2 = 1 THEN 1 ELSE 0) + 2 * BitOr(a \div 2, b \div 2)

\* Bit-packed descriptors of a schema with several parameters in byte 0:
\* width bits starting at bit shift, raw values 0 .. 2^width - 1.
PackedField(shift, width) ==
    Descriptor(0, (Pow2(width) - 1) * Pow2(shift), shift, 0, Pow2(width) - 1,
               "flags", 0)

PackedFields ==
    {PackedField(f[1], f[2]) :
        f \in {g \in (0..7) \X (1..MaxFieldWidth) : g[1] + g[2] <= 8}}

\* the offsets a schema's parameters read and write
Offsets(schema) == {schema[name].byte_offset : name \in DOMAIN schema}

InRange(d, raw) == d.value_range[1] <= raw /\ raw <= d.value_range[2]

RawValues(d) == d.value_range[1]..d.value_range[2]

\* decode of one parameter: apply bit_mask, then shift right by bit_shift
ExtractRaw(byte, d) == BitAnd(byte, d.bit_mask) \div Pow2(d.bit_shift)

\* The raw value stored over the whole byte, whatever it held.
OverwriteByte(byte, d, raw) == BitAnd(raw * Pow2(d.bit_shift), d.bit_mask)

\* encode of one parameter: read-modify-write of the containing byte
WriteRaw(byte, d, raw) ==
    BitOr(BitAnd(byte, 255 - d.bit_mask), BitAnd(raw * Pow2(d.bit_shift), d.bit_mask))

\* a normalized value num/den of [0,1]
Normalized(num, den) == [num |-> num, den |-> den]

NormalizedValues == {Normalized(0, 1), Normalized(1, 2), Normalized(1, 1)}

\* The normalized value written as if it were a raw value.
NoRescale(d, n) == n.num \div n.den

\* encode: linear rescaling of a normalized value to the raw range, rounded
\* to the nearest raw value
Rescale(d, n) ==
    d.value_range[1]
        + (2 * n.num * (d.value_range[2] - d.value_range[1]) + n.den)
            \div (2 * n.den)

\* the raw value encode writes for one entry of presetValues, which holds a
\* raw value or a normalized one
RawOf(d, entry) ==
    IF "normalized" \in DOMAIN entry THEN Rescale(d, entry.normalized)
    ELSE entry.value

\* decode(schema, message): every parameter's raw value, or OutOfRangeError
DecodeBody(schema, body) ==
    LET raws == [name \in DOMAIN schema |->
                    ExtractRaw(body[schema[name].byte_offset], schema[name])]
    IN  IF \A name \in DOMAIN schema : InRange(schema[name], raws[name])
        THEN [error |-> "", raw |-> raws]
        ELSE [error |-> "OutOfRangeError", raw |-> <<>>]

Frame(total_length, device_id) ==
    [total_length |-> total_length, device_id |-> device_id]

Header(length, device_id) == [length |-> length, device_id |-> device_id]

\* the header of the message encode produces for a schema
CompleteHeader(frame) == Header(frame.total_length, frame.device_id)

\* decode's checks of the message against the schema, the length ignored
HeaderErrorsIdOnly(frame, header) ==
    IF header.device_id # frame.device_id THEN {"SchemaMismatchError"} ELSE {}

\* decode's checks of the message against the schema: the errors it can fail
\* with (either one when the message is both short and of another device)
HeaderErrors(frame, header) ==
    (IF header.length < frame.total_length THEN {"TruncatedMessageError"} ELSE {})
    \cup
    (IF header.device_id # frame.device_id THEN {"SchemaMismatchError"} ELSE {})

\* decode(schema, message): what it can return.  The parameters are read only
\* from a message that passed the checks.
DecodeMessage(frame, header, schema, body) ==
    IF HeaderErrors(frame, header) # {}
    THEN {[error |-> e, raw |-> <<>>] : e \in HeaderErrors(frame, header)}
    ELSE {DecodeBody(schema, body)}

\* a Device Identifier of another device, and lengths short of total_length
OtherDeviceId == <<0, 32, 51, 2, 0>>

ReceivedHeaders ==
    {Header(length, id) :
        length \in {TotalLength, TotalLength - 1, 41},
        id \in {AccessVirusId, OtherDeviceId}}

BlankBody(schema) == [o \in Offsets(schema) |-> 0]

\* an encode call on the shipped schema: one parameter, any raw value of its range
InitEncodeVirus ==
    /\ c_schema = AccessVirusParameters
    /\ c_frame = Frame(TotalLength, AccessVirusId)
    /\ c_header = CompleteHeader(c_frame)
    /\ c_template = BlankBody(c_schema)
    /\ \E name \in DOMAIN c_schema :
       \E v \in RawValues(c_schema[name]) :
           c_values = <<[name |-> name, value |-> v]>>
    /\ c_pc = "encode"

\* a received message for the shipped schema: any byte at one parameter's offset
InitDecodeVirus ==
    /\ c_schema = AccessVirusParameters
    /\ c_frame = Frame(TotalLength, AccessVirusId)
    /\ c_header \in ReceivedHeaders
    /\ \E o \in Offsets(c_schema) :
       \E byte \in ByteValues :
           c_template = [BlankBody(c_schema) EXCEPT ![o] = byte]
    /\ c_values = <<>>
    /\ c_pc = "message"

\* an encode call for one bit-packed parameter into a byte holding anything
InitEncodePacked ==
    /\ \E d \in PackedFields :
          /\ c_schema = [name \in {"A"} |-> d]
          /\ \E v \in RawValues(d) : c_values = <<[name |-> "A", value |-> v]>>
    /\ c_frame = Frame(1, <<>>)
    /\ c_header = CompleteHeader(c_frame)
    /\ \E byte \in ByteValues : c_template = [o \in {0} |-> byte]
    /\ c_pc = "encode"

\* spec 8, scenario B: a parameter with range [0,127], mask 0x0F and shift 4
ScenarioBDescriptor == Descriptor(0, 15, 4, 0, 127, "filter", 0)

\* a parameter in the high nibble of the byte: mask 0xF0, shift 4, range [0,15]
HighNibbleDescriptor == Descriptor(0, 240, 4, 0, 15, "filter", 0)

\* an encode call of a normalized value for a one-parameter schema, into a
\* byte holding anything
InitScenarioB ==
    /\ IdleA /\ IdleB /\ IdleR /\ IdleF /\ IdleE /\ IdleK /\ IdleD /\ IdleM /\ IdleN /\ IdleS /\ IdleP
    /\ \E d \in {ScenarioBDescriptor, HighNibbleDescriptor} :
          c_schema = [name \in {"A"} |-> d]
    /\ \E n \in NormalizedValues :
          c_values = <<[name |-> "A", normalized |-> n]>>
    /\ c_frame = Frame(1, <<>>)
    /\ c_header = CompleteHeader(c_frame)
    /\ \E byte \in ByteValues : c_template = [o \in {0} |-> byte]
    /\ c_pc = "encode"
    /\ c_body = c_template
    /\ c_pending = c_values
    /\ c_out = <<>>

InitC ==
    /\ IdleA /\ IdleB /\ IdleR /\ IdleF /\ IdleE /\ IdleK /\ IdleD /\ IdleM /\ IdleN /\ IdleS /\ IdleP
    /\ InitEncodeVirus \/ InitDecodeVirus \/ InitEncodePacked
    /\ c_body = c_template
    /\ c_pending = c_values
    /\ c_out = <<>>

\* encode: write the next entry of presetValues into the body
EncodeWrite ==
    /\ c_pc = "encode"
    /\ c_pending # <<>>
    /\ LET entry == Head(c_pending)
           d     == c_schema[entry.name]
       IN  c_body' = [c_body EXCEPT
                        ![d.byte_offset] =
                            WriteRaw(c_body[d.byte_offset], d, RawOf(d, entry))]
    /\ c_pending' = Tail(c_pending)
    /\ UNCHANGED <<c_schema, c_frame, c_header, c_template, c_values, c_out, c_pc>>
    /\ UNCHANGED restC

\* encode: every entry written, the message is complete
EncodeFinish ==
    /\ c_pc = "encode"
    /\ c_pending = <<>>
    /\ c_pc' = "message"
    /\ UNCHANGED <<c_schema, c_frame, c_header, c_template, c_body, c_values,
                   c_pending, c_out>>
    /\ UNCHANGED restC

\* decode(schema, message)
Decode ==
    /\ c_pc = "message"
    /\ c_out' \in DecodeMessage(c_frame, c_header, c_schema, c_body)
    /\ c_pc' = "decoded"
    /\ UNCHANGED <<c_schema, c_frame, c_header, c_template, c_body, c_values,
                   c_pending>>
    /\ UNCHANGED restC

NextC == EncodeWrite \/ EncodeFinish \/ Decode

SpecCodec == InitC /\ [][NextC]_vars

\* encode and decode run on the scenario's descriptors
SpecScenario == InitScenarioB /\ [][NextC]_vars

SpecAnalyzerFair == SpecAnalyzer /\ WF_vars(NextA)

----------------------------------------------------------------------------
\* Command line: pip install puts the [project.scripts] of pyproject.toml on
\* the path; the README documents the commands to type

MaxCommands == 3

\* README, "CLI Tools"
DocumentedCommands == {"sysex-decode", "sysex-analyze", "sysex-batch"}

\* [project.scripts] of sysex-toolkit/pyproject.toml
ProjectScripts == {"sysex-decode", "sysex-analyze"}

\* [project.scripts] of the pyproject.toml the package creation script writes
CreatedProjectScripts == {"sysex-decode", "sysex-analyze"}

Scripts(project) ==
    CASE project = "pyproject.toml"         -> ProjectScripts
      [] project = "created pyproject.toml" -> CreatedProjectScripts

\* what the shell does with a command
Outcome(command, installed) ==
    IF command \in installed THEN "runs" ELSE "command not found"

InitK ==
    /\ IdleA /\ IdleB /\ IdleC /\ IdleR /\ IdleF /\ IdleE /\ IdleD /\ IdleM /\ IdleN /\ IdleS /\ IdleP
    /\ k_project = ""
    /\ k_installed = {}
    /\ k_log = <<>>

\* pip install of the package
Install ==
    /\ k_project = ""
    /\ k_project' \in {"pyproject.toml", "created pyproject.toml"}
    /\ k_installed' = Scripts(k_project')
    /\ UNCHANGED k_log
    /\ UNCHANGED restK

\* a documented command is typed
Invoke ==
    /\ Len(k_log) < MaxCommands
    /\ \E command \in DocumentedCommands :
           k_log' = Append(k_log, [command |-> command,
                                   outcome |-> Outcome(command, k_installed)])
    /\ UNCHANGED <<k_project, k_installed>>
    /\ UNCHANGED restK

NextK == Install \/ Invoke

SpecCli == InitK /\ [][NextK]_vars

----------------------------------------------------------------------------
\* Feature extraction: the loop that flattens one decoded preset into
\* wobble_features

\* the categories the loop keeps
CategoryFilter == {"filter", "lfo"}

\* what a vector holds for a parameter the preset lacks (not-a-number)
Sentinel == -1

\* parameters a decoded preset can hold, with their categories
Category(name) ==
    CASE name = "filter_cutoff" -> "filter"
      [] name = "lfo1_rate"     -> "lfo"
      [] name = "osc1_shape"    -> "oscillator"

ParameterNames == {"filter_cutoff", "lfo1_rate", "osc1_shape"}

\* normalized values, in tenths
NormalizedTenths == {0, 10}

ParamData(name, value) ==
    [name |-> name, category |-> Category(name), normalized_value |-> value]

\* the mappings preset['parameters'] can be: any of the parameters, each at
\* most once, in any iteration order
PresetMappings ==
    {p \in UNION {[1..n -> {ParamData(name, v) : name \in ParameterNames,
                                                  v \in NormalizedTenths}] :
                    n \in 0..Cardinality(ParameterNames)} :
        \A j, k \in DOMAIN p : p[j].name = p[k].name => j = k}

\* the orders a caller can want for the features of the kept categories
ParameterOrders ==
    {<<"filter_cutoff", "lfo1_rate">>, <<"lfo1_rate", "filter_cutoff">>}

\* wobble_features.append(param_data['normalized_value']) under the if
KeepFeature(features, param_data) ==
    IF param_data.category \in CategoryFilter
    THEN Append(features, param_data.normalized_value)
    ELSE features

InitE ==
    /\ IdleA /\ IdleB /\ IdleC /\ IdleR /\ IdleF /\ IdleK /\ IdleD /\ IdleM /\ IdleN /\ IdleS /\ IdleP
    /\ e_preset \in PresetMappings
    /\ e_order \in ParameterOrders
    /\ e_pos = 0
    /\ e_features = <<>>
    /\ e_pc = "loop"

\* one iteration of: for param_name, param_data in preset['parameters'].items()
ExportItem ==
    /\ e_pc = "loop"
    /\ e_pos < Len(e_preset)
    /\ e_features' = KeepFeature(e_features, e_preset[e_pos + 1])
    /\ e_pos' = e_pos + 1
    /\ UNCHANGED <<e_preset, e_order, e_pc>>
    /\ UNCHANGED restE

\* the mapping is exhausted: feature_matrix.append(wobble_features)
ExportRow ==
    /\ e_pc = "loop"
    /\ e_pos = Len(e_preset)
    /\ e_pc' = "done"
    /\ UNCHANGED <<e_preset, e_order, e_pos, e_features>>
    /\ UNCHANGED restE

NextE == ExportItem \/ ExportRow

SpecExporter == InitE /\ [][NextE]_vars

----------------------------------------------------------------------------
\* Message framer: one left-to-right pass over the bytes the analyzer reads

\* a start marker closed by an end marker at offset pos, one byte short
FramedMessageShort(start, pos) == [start_offset |-> start, length |-> pos - start]

\* the Framed Message from the start marker at start to the end marker at pos
FramedMessage(start, pos) == [start_offset |-> start, length |-> pos - start + 1]

\* frame(bytes) is called on the bytes of the file
FrameOpen ==
    /\ f_pc = "idle"
    /\ a_pc # "idle"
    /\ a_readable
    /\ f_pc' = "scan"
    /\ UNCHANGED <<f_messages, f_start, f_pos, f_warnings>>
    /\ UNCHANGED restF

\* the next byte: a start marker outside a message opens one, the first end
\* marker after it closes it, every other byte is passed over
FrameByte ==
    /\ f_pc = "scan"
    /\ f_pos < Len(data)
    /\ LET byte == data[f_pos + 1]
       IN  IF f_start = -1
           THEN /\ f_start' = IF byte = StartMarker THEN f_pos ELSE -1
                /\ UNCHANGED f_messages
           ELSE IF byte = EndMarker
                THEN /\ f_messages' = Append(f_messages, FramedMessage(f_start, f_pos))
                     /\ f_start' = -1
                ELSE UNCHANGED <<f_messages, f_start>>
    /\ f_pos' = f_pos + 1
    /\ UNCHANGED <<f_warnings, f_pc>>
    /\ UNCHANGED restF

\* stream end: an open message is dropped and counted as a framing warning
FrameEnd ==
    /\ f_pc = "scan"
    /\ f_pos = Len(data)
    /\ f_warnings' = IF f_start # -1 THEN f_warnings + 1 ELSE f_warnings
    /\ f_pc' = "done"
    /\ UNCHANGED <<f_messages, f_start, f_pos>>
    /\ UNCHANGED restF

NextF == FrameOpen \/ FrameByte \/ FrameEnd

\* the analyzer and the framer, each run on the same bytes
SpecFraming == InitA /\ [][NextA \/ NextF]_vars

----------------------------------------------------------------------------
\* Schema registry: SysExLibrary() loads the shipped configs, register(schema)
\* validates a schema and indexes it by Device Identifier and by string key

MaxRegisterCalls == 4

Entry(name, d) == [name |-> name, descriptor |-> d]

\* one record of the schema source: key, header, total_length, parameters
Schema(key, device_id, total_length, entries) ==
    [key |-> key, device_id |-> device_id, total_length |-> total_length,
     entries |-> entries]

\* the names of "parameters" of configs/access_virus.json, in file order
AccessVirusOrder ==
    <<"filter_cutoff", "filter_resonance", "filter_env_amount", "lfo1_rate",
      "lfo1_amount">>

\* configs/access_virus.json
AccessVirusSchema ==
    Schema("access_virus", AccessVirusId, TotalLength,
           [k \in DOMAIN AccessVirusOrder |->
               Entry(AccessVirusOrder[k], AccessVirusParameters[AccessVirusOrder[k]])])

ShippedConfigs == <<AccessVirusSchema>>

\* schemas a caller hands to register: custom devices, well-formed and not
CustomSchema ==
    Schema("custom", <<125, 1>>, 4,
           <<Entry("low", Descriptor(0, 15, 0, 0, 15, "filter", 1)),
             Entry("high", Descriptor(0, 240, 4, 0, 15, "lfo", 2))>>)

OtherCustomSchema ==
    Schema("custom", <<125, 3>>, 4,
           <<Entry("level", Descriptor(3, 127, 0, 0, 127, "filter", 1))>>)

SevenBitVirusSchema ==
    Schema("access_virus", AccessVirusId, TotalLength,
           <<Entry("filter_cutoff", Descriptor(40, 127, 0, 0, 127, "filter", 74))>>)

DuplicateNameSchema ==
    Schema("custom", <<125, 1>>, 4,
           <<Entry("low", Descriptor(0, 15, 0, 0, 15, "filter", 1)),
             Entry("low", Descriptor(1, 15, 0, 0, 15, "filter", 2))>>)

OverlapSchema ==
    Schema("overlap", <<125, 2>>, 4,
           <<Entry("low", Descriptor(0, 15, 0, 0, 15, "filter", 1)),
             Entry("middle", Descriptor(0, 24, 3, 0, 3, "lfo", 2))>>)

OutsideSchema ==
    Schema("outside", <<125, 4>>, 4,
           <<Entry("level", Descriptor(4, 127, 0, 0, 127, "filter", 1))>>)

RegisterInputs ==
    {CustomSchema, OtherCustomSchema, SevenBitVirusSchema, DuplicateNameSchema,
     OverlapSchema, OutsideSchema, AccessVirusSchema}

\* register's validation, rule by rule
UniqueNames(schema) ==
    \A j, k \in DOMAIN schema.entries :
        schema.entries[j].name = schema.entries[k].name => j = k

NoOverlap(schema) ==
    \A j, k \in DOMAIN schema.entries :
        (/\ j # k
         /\ schema.entries[j].descriptor.byte_offset
                = schema.entries[k].descriptor.byte_offset)
        => BitAnd(schema.entries[j].descriptor.bit_mask,
                  schema.entries[k].descriptor.bit_mask) = 0

OffsetsWithin(schema) ==
    \A k \in DOMAIN schema.entries :
        schema.entries[k].descriptor.byte_offset < schema.total_length

\* the descriptor invariant: whatever the byte holds, the raw value after
\* mask and shift is within the declared range
DescriptorValid(d) == \A byte \in ByteValues : InRange(d, ExtractRaw(byte, d))

DescriptorsValid(schema) ==
    \A k \in DOMAIN schema.entries : DescriptorValid(schema.entries[k].descriptor)

Valid(schema) ==
    /\ UniqueNames(schema)
    /\ NoOverlap(schema)
    /\ OffsetsWithin(schema)
    /\ DescriptorsValid(schema)

Put(index, key, value) ==
    [x \in DOMAIN index \cup {key} |-> IF x = key THEN value ELSE index[x]]

\* the key index filled in before the schema is validated
IndexByKeyUnchecked(index, schema) == Put(index, schema.key, schema)

\* the two indexes after register(schema)
IndexByKey(index, schema) ==
    IF Valid(schema) THEN Put(index, schema.key, schema) ELSE index

IndexById(index, schema) ==
    IF Valid(schema) THEN Put(index, schema.device_id, schema) ELSE index

RegisterError(schema) == IF Valid(schema) THEN "" ELSE "SchemaValidationError"

\* the initial load: every shipped config goes through register; a schema
\* that fails validation is left out and the load goes on
RECURSIVE LoadByKey(_, _)
LoadByKey(index, configs) ==
    IF configs = <<>> THEN index
    ELSE LoadByKey(IndexByKey(index, Head(configs)), Tail(configs))

RECURSIVE LoadById(_, _)
LoadById(index, configs) ==
    IF configs = <<>> THEN index
    ELSE LoadById(IndexById(index, Head(configs)), Tail(configs))

list_supported_synthesizers == DOMAIN r_by_key

\* get_decoder(format): a decoder over the schema registered under the
\* format's key, None when there is none
Decoder(schema) == [schema |-> schema]
None == [none |-> TRUE]

get_decoder(format) ==
    IF format \in DOMAIN r_by_key THEN Decoder(r_by_key[format]) ELSE None

InitR ==
    /\ IdleA /\ IdleB /\ IdleC /\ IdleF /\ IdleE /\ IdleK /\ IdleD /\ IdleM /\ IdleN /\ IdleS /\ IdleP
    /\ r_by_id = <<>>
    /\ r_by_key = <<>>
    /\ r_arg = <<>>
    /\ r_error = ""
    /\ r_calls = 0
    /\ r_pc = "new"

\* SysExLibrary(): the initial schema load
LoadConfigs ==
    /\ r_pc = "new"
    /\ r_by_key' = LoadByKey(r_by_key, ShippedConfigs)
    /\ r_by_id' = LoadById(r_by_id, ShippedConfigs)
    /\ r_arg' = ShippedConfigs[Len(ShippedConfigs)]
    /\ r_error' = RegisterError(ShippedConfigs[Len(ShippedConfigs)])
    /\ r_pc' = "ready"
    /\ UNCHANGED r_calls
    /\ UNCHANGED restR

\* library.register(schema)
Register ==
    /\ r_pc = "ready"
    /\ r_calls < MaxRegisterCalls
    /\ \E schema \in RegisterInputs :
        /\ r_arg' = schema
        /\ r_by_key' = IndexByKey(r_by_key, schema)
        /\ r_by_id' = IndexById(r_by_id, schema)
        /\ r_error' = RegisterError(schema)
    /\ r_calls' = r_calls + 1
    /\ UNCHANGED r_pc
    /\ UNCHANGED restR

NextR == LoadConfigs \/ Register

SpecRegistry == InitR /\ [][NextR]_vars

----------------------------------------------------------------------------
\* Dataset store: the reducers of datasetSlice, and the pending, fulfilled
\* and rejected actions of its three thunks, in any interleaving

MaxRequests == 3

\* null, for currentDataset
NullDataset == [id |-> -1]

Dataset(id) == [id |-> id]

\* a PreprocessingJob: id, status and progress
PreprocessingJob(id, status, progress) ==
    [id |-> id, status |-> status, progress |-> progress]

Request(id, thunk) == [id |-> id, thunk |-> thunk]

InFlight(thunk) == {r \in ds_inflight : r.thunk = thunk}

\* the job the server creates for a startPreprocessing request: one per
\* request, named after it
JobOf(request) == request.id

\* what the server reports about a job while it runs
JobReports(id) ==
    {PreprocessingJob(id, "running", 50), PreprocessingJob(id, "completed", 100)}

\* the dataset lists GET /api/v1/datasets answers with
DatasetLists == {<<>>, <<Dataset(0)>>}

\* action.error.message of a rejected request ("" when there is none)
ErrorMessages == {"", "Network Error"}

\* action.error.message || fallback
MessageOr(message, fallback) == IF message = "" THEN fallback ELSE message

\* state.preprocessingJobs.findIndex(job => job.id === id), 0 for -1
FindJob(jobs, id) ==
    IF \E k \in DOMAIN jobs : jobs[k].id = id
    THEN CHOOSE k \in DOMAIN jobs :
             jobs[k].id = id /\ \A j \in DOMAIN jobs : jobs[j].id = id => k <= j
    ELSE 0

InitD ==
    /\ IdleA /\ IdleB /\ IdleC /\ IdleR /\ IdleF /\ IdleE /\ IdleK /\ IdleM /\ IdleN /\ IdleS /\ IdleP
    /\ ds_datasets = <<>>
    /\ ds_currentDataset = NullDataset
    /\ ds_preprocessingJobs = <<>>
    /\ ds_loading = FALSE
    /\ ds_error = "null"
    /\ ds_inflight = {}
    /\ ds_dispatched = 0

\* setCurrentDataset(payload)
SetCurrentDataset ==
    /\ \E payload \in {NullDataset} \cup Range(ds_datasets) :
           /\ payload # ds_currentDataset
           /\ ds_currentDataset' = payload
    /\ UNCHANGED <<ds_datasets, ds_preprocessingJobs, ds_loading, ds_error,
                   ds_inflight, ds_dispatched>>
    /\ UNCHANGED restD

\* updatePreprocessingJob(payload): a report about a job the server runs
UpdatePreprocessingJob ==
    /\ \E id \in 1..ds_dispatched :
       \E payload \in JobReports(id) :
           LET index == FindJob(ds_preprocessingJobs, payload.id)
           IN  /\ Request(id, "startPreprocessing") \in
                     ds_inflight \cup
                     {Request(ds_preprocessingJobs[k].id, "startPreprocessing") :
                          k \in DOMAIN ds_preprocessingJobs}
               /\ ds_preprocessingJobs' =
                     IF index # 0
                     THEN [ds_preprocessingJobs EXCEPT ![index] = payload]
                     ELSE Append(ds_preprocessingJobs, payload)
    /\ UNCHANGED <<ds_datasets, ds_currentDataset, ds_loading, ds_error,
                   ds_inflight, ds_dispatched>>
    /\ UNCHANGED restD

\* clearError()
ClearError ==
    /\ ds_error # "null"
    /\ ds_error' = "null"
    /\ UNCHANGED <<ds_datasets, ds_currentDataset, ds_preprocessingJobs,
                   ds_loading, ds_inflight, ds_dispatched>>
    /\ UNCHANGED restD

\* dispatch(thunk(...)): the request is sent and thunk.pending is dispatched
Dispatch(thunk) ==
    /\ ds_dispatched < MaxRequests
    /\ ds_dispatched' = ds_dispatched + 1
    /\ ds_inflight' = ds_inflight \cup {Request(ds_dispatched + 1, thunk)}

\* the request settles: thunk.fulfilled or thunk.rejected is dispatched
Settle(request) ==
    /\ request \in ds_inflight
    /\ ds_inflight' = ds_inflight \ {request}
    /\ UNCHANGED ds_dispatched

FetchDatasetsPending ==
    /\ Dispatch("fetchDatasets")
    /\ ds_loading' = TRUE
    /\ ds_error' = "null"
    /\ UNCHANGED <<ds_datasets, ds_currentDataset, ds_preprocessingJobs>>
    /\ UNCHANGED restD

FetchDatasetsFulfilled ==
    /\ \E request \in InFlight("fetchDatasets") : Settle(request)
    /\ ds_loading' = FALSE
    /\ ds_datasets' \in DatasetLists
    /\ UNCHANGED <<ds_currentDataset, ds_preprocessingJobs, ds_error>>
    /\ UNCHANGED restD

FetchDatasetsRejected ==
    /\ \E request \in InFlight("fetchDatasets") : Settle(request)
    /\ ds_loading' = FALSE
    /\ \E message \in ErrorMessages :
           ds_error' = MessageOr(message, "Failed to fetch datasets")
    /\ UNCHANGED <<ds_datasets, ds_currentDataset, ds_preprocessingJobs>>
    /\ UNCHANGED restD

UploadDatasetPending ==
    /\ Dispatch("uploadDataset")
    /\ ds_loading' = TRUE
    /\ ds_error' = "null"
    /\ UNCHANGED <<ds_datasets, ds_currentDataset, ds_preprocessingJobs>>
    /\ UNCHANGED restD

UploadDatasetFulfilled ==
    /\ \E request \in InFlight("uploadDataset") :
           /\ Settle(request)
           /\ ds_datasets' = Append(ds_datasets, Dataset(request.id))
    /\ ds_loading' = FALSE
    /\ UNCHANGED <<ds_currentDataset, ds_preprocessingJobs, ds_error>>
    /\ UNCHANGED restD

UploadDatasetRejected ==
    /\ \E request \in InFlight("uploadDataset") : Settle(request)
    /\ ds_loading' = FALSE
    /\ \E message \in ErrorMessages :
           ds_error' = MessageOr(message, "Failed to upload dataset")
    /\ UNCHANGED <<ds_datasets, ds_currentDataset, ds_preprocessingJobs>>
    /\ UNCHANGED restD

\* startPreprocessing.pending has no reducer
StartPreprocessingPending ==
    /\ Dispatch("startPreprocessing")
    /\ UNCHANGED <<ds_datasets, ds_currentDataset, ds_preprocessingJobs,
                   ds_loading, ds_error>>
    /\ UNCHANGED restD

StartPreprocessingFulfilled ==
    /\ \E request \in InFlight("startPreprocessing") :
           /\ Settle(request)
           /\ ds_preprocessingJobs' =
                  Append(ds_preprocessingJobs,
                         PreprocessingJob(JobOf(request), "queued", 0))
    /\ UNCHANGED <<ds_datasets, ds_currentDataset, ds_loading, ds_error>>
    /\ UNCHANGED restD

\* startPreprocessing.rejected has no reducer
StartPreprocessingRejected ==
    /\ \E request \in InFlight("startPreprocessing") : Settle(request)
    /\ UNCHANGED <<ds_datasets, ds_currentDataset, ds_preprocessingJobs,
                   ds_loading, ds_error>>
    /\ UNCHANGED restD

NextD ==
    \/ SetCurrentDataset
    \/ UpdatePreprocessingJob
    \/ ClearError
    \/ FetchDatasetsPending
    \/ FetchDatasetsFulfilled
    \/ FetchDatasetsRejected
    \/ UploadDatasetPending
    \/ UploadDatasetFulfilled
    \/ UploadDatasetRejected
    \/ StartPreprocessingPending
    \/ StartPreprocessingFulfilled
    \/ StartPreprocessingRejected

SpecDatasetStore == InitD /\ [][NextD]_vars

----------------------------------------------------------------------------
\* Model store: the reducers of modelSlice

MaxModels == 2

\* an MLModel: id and status
MLModel(id, status) == [id |-> id, status |-> status]

\* null, for currentModel
NullModel == [id |-> -1]

ModelPayloads ==
    {MLModel(id, status) : id \in 1..MaxModels, status \in {"training", "completed"}}

\* state.models.findIndex(m => m.id === id), 0 for -1
FindModel(models, id) ==
    IF \E k \in DOMAIN models : models[k].id = id
    THEN CHOOSE k \in DOMAIN models :
             models[k].id = id /\ \A j \in DOMAIN models : models[j].id = id => k <= j
    ELSE 0

InitM ==
    /\ IdleA /\ IdleB /\ IdleC /\ IdleR /\ IdleF /\ IdleE /\ IdleK /\ IdleD /\ IdleN /\ IdleS /\ IdleP
    /\ ms_models = <<>>
    /\ ms_currentModel = NullModel
    /\ ms_loading = FALSE
    /\ ms_error = "null"

\* setModels(payload): a list of models with distinct ids
SetModels ==
    /\ \E payload \in UNION {[1..n -> ModelPayloads] : n \in 0..MaxModels} :
           /\ \A j, k \in DOMAIN payload : payload[j].id = payload[k].id => j = k
           /\ payload # ms_models
           /\ ms_models' = payload
    /\ UNCHANGED <<ms_currentModel, ms_loading, ms_error>>
    /\ UNCHANGED restM

\* addModel(payload): a model whose id the list does not hold yet
AddModel ==
    /\ Len(ms_models) < MaxModels
    /\ \E payload \in ModelPayloads :
           /\ FindModel(ms_models, payload.id) = 0
           /\ ms_models' = Append(ms_models, payload)
    /\ UNCHANGED <<ms_currentModel, ms_loading, ms_error>>
    /\ UNCHANGED restM

\* updateModel(payload)
UpdateModel ==
    /\ \E payload \in ModelPayloads :
           LET index == FindModel(ms_models, payload.id)
           IN  /\ index # 0
               /\ ms_models[index] # payload
               /\ ms_models' = [ms_models EXCEPT ![index] = payload]
    /\ UNCHANGED <<ms_currentModel, ms_loading, ms_error>>
    /\ UNCHANGED restM

\* setCurrentModel(payload): null, or a model picked from the list
SetCurrentModel ==
    /\ \E payload \in {NullModel} \cup Range(ms_models) :
           /\ payload # ms_currentModel
           /\ ms_currentModel' = payload
    /\ UNCHANGED <<ms_models, ms_loading, ms_error>>
    /\ UNCHANGED restM

\* setLoading(payload)
SetLoading ==
    /\ ms_loading' = ~ms_loading
    /\ UNCHANGED <<ms_models, ms_currentModel, ms_error>>
    /\ UNCHANGED restM

\* setError(payload)
SetError ==
    /\ \E payload \in {"null", "Training failed"} :
           /\ payload # ms_error
           /\ ms_error' = payload
    /\ UNCHANGED <<ms_models, ms_currentModel, ms_loading>>
    /\ UNCHANGED restM

NextM ==
    \/ SetModels
    \/ AddModel
    \/ UpdateModel
    \/ SetCurrentModel
    \/ SetLoading
    \/ SetError

SpecModelStore == InitM /\ [][NextM]_vars

----------------------------------------------------------------------------
\* Navigation: a click on a Sidebar item toggles a group or navigates to the
\* item's path, and the Routes of App render the element of the route that
\* matches the path

\* a navigation item with a path; "" names the top level as parent
Leaf(id, parent, path) == [id |-> id, parent |-> parent, path |-> path]

\* the items of navigationItems that have children
GroupItems == {"datasets", "models", "analysis"}

\* the items of navigationItems that have a path, paths as their segments
LeafItems ==
    {Leaf("dashboard", "", <<"dashboard">>),
     Leaf("datasets-overview", "datasets", <<"datasets">>),
     Leaf("datasets-upload", "datasets", <<"datasets", "upload">>),
     Leaf("models-overview", "models", <<"models">>),
     Leaf("models-training", "models", <<"models", "training">>),
     Leaf("models-evaluation", "models", <<"models", "evaluation">>),
     Leaf("analysis-realtime", "analysis", <<"analysis", "realtime">>),
     Leaf("analysis-comparison", "analysis", <<"analysis", "comparison">>),
     Leaf("experiments", "", <<"experiments">>),
     Leaf("settings", "", <<"settings">>)}

Route(path, element) == [path |-> path, element |-> element]

\* the Route elements of App, in order; <<"*">> is the wildcard
AppRoutes ==
    <<Route(<<>>, "Dashboard"),
      Route(<<"dashboard">>, "Dashboard"),
      Route(<<"datasets">>, "Datasets"),
      Route(<<"models">>, "Models"),
      Route(<<"analysis">>, "Analysis"),
      Route(<<"experiments">>, "Experiments"),
      Route(<<"settings">>, "Settings"),
      Route(<<"*">>, "NotFound")>>

\* a route path without a trailing * matches the whole pathname, segment by
\* segment; the wildcard matches every pathname
Matches(route, pathname) == route.path = <<"*">> \/ route.path = pathname

\* the routes that match pathname other than the wildcard
ProperMatches(pathname) ==
    {k \in DOMAIN AppRoutes :
        AppRoutes[k].path # <<"*">> /\ Matches(AppRoutes[k], pathname)}

\* the element Routes renders: that of the best match, the wildcard ranking
\* last
Rendered(pathname) ==
    IF ProperMatches(pathname) # {}
    THEN AppRoutes[CHOOSE k \in ProperMatches(pathname) :
                       \A j \in ProperMatches(pathname) : k <= j].element
    ELSE IF \E k \in DOMAIN AppRoutes : Matches(AppRoutes[k], pathname)
         THEN "NotFound"
         ELSE ""

\* prev.includes(id) ? prev.filter(x => x !== id) : [...prev, id]
Toggle(prev, id) ==
    IF id \in Range(prev)
    THEN SelectSeq(prev, LAMBDA x : x # id)
    ELSE Append(prev, id)

InitN ==
    /\ IdleA /\ IdleB /\ IdleC /\ IdleR /\ IdleF /\ IdleE /\ IdleK /\ IdleD /\ IdleM /\ IdleS /\ IdleP
    /\ n_pathname = <<>>
    /\ n_element = Rendered(<<>>)
    /\ n_expandedItems = <<"datasets", "models", "analysis">>
    /\ n_sidebarOpen = TRUE

\* toggleSidebar of App
ToggleSidebar ==
    /\ n_sidebarOpen' = ~n_sidebarOpen
    /\ UNCHANGED <<n_pathname, n_element, n_expandedItems>>
    /\ UNCHANGED restN

\* handleItemClick(item), item.children: toggle expansion
ClickGroup ==
    /\ n_sidebarOpen
    /\ \E id \in GroupItems : n_expandedItems' = Toggle(n_expandedItems, id)
    /\ UNCHANGED <<n_pathname, n_element, n_sidebarOpen>>
    /\ UNCHANGED restN

\* handleItemClick(item), item.path: navigate(item.path); an item below a
\* group is there to click while the group is expanded
ClickLeaf ==
    /\ n_sidebarOpen
    /\ \E item \in LeafItems :
           /\ item.parent = "" \/ item.parent \in Range(n_expandedItems)
           /\ n_pathname' = item.path
           /\ n_element' = Rendered(item.path)
    /\ UNCHANGED <<n_expandedItems, n_sidebarOpen>>
    /\ UNCHANGED restN

NextN == ToggleSidebar \/ ClickGroup \/ ClickLeaf

SpecNavigation == InitN /\ [][NextN]_vars

----------------------------------------------------------------------------
\* Startup script: trap, backend start, backend wait loop, frontend start

MaxInterrupts == 1

\* for i in {1..30}
ProbeCount == 30

Kill(condition, process) == [condition |-> condition, process |-> process]

\* cleanup(): kill $BACKEND_PID and kill $FRONTEND_PID, each when set
Cleanup(condition, backend_pid, frontend_pid) ==
    {Kill(condition, pid) : pid \in {backend_pid, frontend_pid} \ {""}}

\* a process after cleanup signalled it, or left it alone
AfterCleanup(process, pid) ==
    IF pid # "" /\ process \in {"starting", "up", "running"} THEN "gone"
    ELSE process

\* The loop left after the last failed probe instead of the script.
AfterFailedProbeFallThrough(i) == IF i = ProbeCount THEN "frontend" ELSE "probe"

\* after a failed probe: exit 1 when it was the last one, else sleep and loop
AfterFailedProbe(i) == IF i = ProbeCount THEN "exited" ELSE "probe"

InitS ==
    /\ IdleA /\ IdleB /\ IdleC /\ IdleR /\ IdleF /\ IdleE /\ IdleK /\ IdleD /\ IdleM /\ IdleN /\ IdleP
    /\ s_pc = "trap"
    /\ s_i = 0
    /\ s_trapped = FALSE
    /\ s_BACKEND_PID = ""
    /\ s_FRONTEND_PID = ""
    /\ s_backend = "none"
    /\ s_frontend = "none"
    /\ s_probed = FALSE
    /\ s_status = -1
    /\ s_signalled = {}
    /\ s_interrupts = 0

\* trap cleanup EXIT INT TERM
SetTrap ==
    /\ s_pc = "trap"
    /\ s_trapped' = TRUE
    /\ s_pc' = "backend"
    /\ UNCHANGED <<s_i, s_BACKEND_PID, s_FRONTEND_PID, s_backend, s_frontend,
                   s_probed, s_status, s_signalled, s_interrupts>>
    /\ UNCHANGED restS

\* python -m uvicorn ... & ; BACKEND_PID=$! ; the loop starts with i = 1
StartBackend ==
    /\ s_pc = "backend"
    /\ s_backend' = "starting"
    /\ s_BACKEND_PID' = "backend"
    /\ s_i' = 1
    /\ s_pc' = "probe"
    /\ UNCHANGED <<s_trapped, s_FRONTEND_PID, s_frontend, s_probed, s_status,
                   s_signalled, s_interrupts>>
    /\ UNCHANGED restS

\* the backend process begins to answer on port 8000
BackendUp ==
    /\ s_backend = "starting"
    /\ s_backend' = "up"
    /\ UNCHANGED <<s_pc, s_i, s_trapped, s_BACKEND_PID, s_FRONTEND_PID, s_frontend,
                   s_probed, s_status, s_signalled, s_interrupts>>
    /\ UNCHANGED restS

\* the backend process ends by itself
BackendEnds ==
    /\ s_backend \in {"starting", "up"}
    /\ s_backend' = "gone"
    /\ UNCHANGED <<s_pc, s_i, s_trapped, s_BACKEND_PID, s_FRONTEND_PID, s_frontend,
                   s_probed, s_status, s_signalled, s_interrupts>>
    /\ UNCHANGED restS

\* curl -s http://localhost:8000/docs succeeds: break
ProbeSucceeds ==
    /\ s_pc = "probe"
    /\ s_backend = "up"
    /\ s_probed' = TRUE
    /\ s_pc' = "frontend"
    /\ UNCHANGED <<s_i, s_trapped, s_BACKEND_PID, s_FRONTEND_PID, s_backend,
                   s_frontend, s_status, s_signalled, s_interrupts>>
    /\ UNCHANGED restS

\* curl fails: after probe 30 exit 1, and the EXIT trap runs cleanup;
\* before that sleep 1 and the next i
ProbeFails ==
    /\ s_pc = "probe"
    /\ s_pc' = AfterFailedProbe(s_i)
    /\ IF s_pc' = "exited"
       THEN /\ s_status' = 1
            /\ s_signalled' = s_signalled
                                \cup Cleanup("EXIT", s_BACKEND_PID, s_FRONTEND_PID)
            /\ s_backend' = AfterCleanup(s_backend, s_BACKEND_PID)
            /\ s_frontend' = AfterCleanup(s_frontend, s_FRONTEND_PID)
            /\ UNCHANGED s_i
       ELSE /\ s_i' = IF s_pc' = "probe" THEN s_i + 1 ELSE s_i
            /\ UNCHANGED <<s_status, s_signalled, s_backend, s_frontend>>
    /\ UNCHANGED <<s_trapped, s_BACKEND_PID, s_FRONTEND_PID, s_probed, s_interrupts>>
    /\ UNCHANGED restS

\* cd frontend; npm start & ; FRONTEND_PID=$! ; the frontend wait loop and
\* the status display follow, and the script comes to wait
StartFrontend ==
    /\ s_pc = "frontend"
    /\ s_frontend' = "running"
    /\ s_FRONTEND_PID' = "frontend"
    /\ s_pc' = "wait"
    /\ UNCHANGED <<s_i, s_trapped, s_BACKEND_PID, s_backend, s_probed, s_status,
                   s_signalled, s_interrupts>>
    /\ UNCHANGED restS

\* the frontend process ends by itself
FrontendEnds ==
    /\ s_frontend = "running"
    /\ s_frontend' = "gone"
    /\ UNCHANGED <<s_pc, s_i, s_trapped, s_BACKEND_PID, s_FRONTEND_PID, s_backend,
                   s_probed, s_status, s_signalled, s_interrupts>>
    /\ UNCHANGED restS

\* INT or TERM while the trap is set: cleanup runs, and as it does not exit
\* the script goes on where it was; wait, if it was waiting, returns
Interrupt ==
    /\ s_trapped
    /\ s_pc # "exited"
    /\ s_interrupts < MaxInterrupts
    /\ s_interrupts' = s_interrupts + 1
    /\ s_signalled' = s_signalled \cup Cleanup("INT", s_BACKEND_PID, s_FRONTEND_PID)
    /\ s_backend' = AfterCleanup(s_backend, s_BACKEND_PID)
    /\ s_frontend' = AfterCleanup(s_frontend, s_FRONTEND_PID)
    /\ UNCHANGED <<s_pc, s_i, s_trapped, s_BACKEND_PID, s_FRONTEND_PID, s_probed,
                   s_status>>
    /\ UNCHANGED restS

\* wait returns, both processes having ended: the script ends with status 0
\* and the EXIT trap runs cleanup
WaitReturns ==
    /\ s_pc = "wait"
    /\ s_backend = "gone"
    /\ s_frontend = "gone"
    /\ s_pc' = "exited"
    /\ s_status' = 0
    /\ s_signalled' = s_signalled \cup Cleanup("EXIT", s_BACKEND_PID, s_FRONTEND_PID)
    /\ UNCHANGED <<s_i, s_trapped, s_BACKEND_PID, s_FRONTEND_PID, s_backend,
                   s_frontend, s_probed, s_interrupts>>
    /\ UNCHANGED restS

NextS ==
    \/ SetTrap
    \/ StartBackend
    \/ BackendUp
    \/ BackendEnds
    \/ ProbeSucceeds
    \/ ProbeFails
    \/ StartFrontend
    \/ FrontendEnds
    \/ Interrupt
    \/ WaitReturns

SpecStartup == InitS /\ [][NextS]_vars

----------------------------------------------------------------------------
\* Package creation script: under set -e, extract_section for eight
\* sections of package_files.py, then the files written from here-documents

\* the extract_section calls, in order (section name = output file)
ExtractSteps ==
    <<"setup.py", "requirements.txt", "README.md", "LICENSE",
      "sysex_toolkit/__init__.py", "sysex_toolkit/utils.py",
      "sysex_toolkit/cli.py", "examples/basic_usage.py">>

\* the files written after them, in order
LaterSteps ==
    <<"sysex_toolkit/core.py", "sysex_toolkit/analyzer.py",
      "sysex_toolkit/batch.py", "sysex_toolkit/configs/access_virus.json",
      "tests/test_basic.py", "MANIFEST.in", "pyproject.toml", "install.sh",
      "build.sh", ".gitignore">>

Steps == ExtractSteps \o LaterSteps

\* the sections the model lets be missing or without end marker; the others
\* are complete
VariedSections == {"setup.py", "LICENSE", "sysex_toolkit/cli.py"}

\* extract_section's return status: 1 when grep finds no start line
ExtractStatus(section_state) == IF section_state = "missing" THEN 1 ELSE 0

\* what extract_section writes: the section's lines up to the end marker;
\* without an end marker the sed script "Np,$p" is refused and tail writes
\* an empty file
Extracted(section_state) == IF section_state = "closed" THEN "section" ELSE "empty"

\* set -e: a simple command that returns non-zero ends the script
ErrExit(status) == status # 0

InitP ==
    /\ IdleA /\ IdleB /\ IdleC /\ IdleR /\ IdleF /\ IdleE /\ IdleK /\ IdleD /\ IdleM /\ IdleN /\ IdleS
    /\ p_package \in {pkg \in [Range(ExtractSteps) -> {"missing", "open", "closed"}] :
                         \A name \in Range(ExtractSteps) \ VariedSections :
                             pkg[name] = "closed"}
    /\ p_has_source \in BOOLEAN
    /\ p_step = 0
    /\ p_files = <<>>
    /\ p_reported = {}
    /\ p_status = -1

\* extract_section "<name>" "<name>"
ExtractSection ==
    /\ p_status = -1
    /\ p_step < Len(ExtractSteps)
    /\ LET name   == Steps[p_step + 1]
           status == ExtractStatus(p_package[name])
       IN  /\ IF status = 0
              THEN /\ p_files' = Put(p_files, name, Extracted(p_package[name]))
                   /\ UNCHANGED p_reported
              ELSE /\ p_reported' = p_reported \cup {name}
                   /\ UNCHANGED p_files
           /\ p_status' = IF ErrExit(status) THEN status ELSE -1
    /\ p_step' = p_step + 1
    /\ UNCHANGED <<p_package, p_has_source>>
    /\ UNCHANGED restP

\* cat > <name> << 'EOF' ... ; core.py is taken from ../sysex_toolkit.py
\* when that file exists, else a basic one is written
WriteLater ==
    /\ p_status = -1
    /\ p_step >= Len(ExtractSteps)
    /\ p_step < Len(Steps)
    /\ LET name == Steps[p_step + 1]
       IN  p_files' = Put(p_files, name,
                          IF name = "sysex_toolkit/core.py" /\ ~p_has_source
                          THEN "basic" ELSE "heredoc")
    /\ p_step' = p_step + 1
    /\ UNCHANGED <<p_package, p_has_source, p_reported, p_status>>
    /\ UNCHANGED restP

\* the end of the script is reached
ScriptEnds ==
    /\ p_status = -1
    /\ p_step = Len(Steps)
    /\ p_status' = 0
    /\ UNCHANGED <<p_package, p_has_source, p_step, p_files, p_reported>>
    /\ UNCHANGED restP

NextP == ExtractSection \/ WriteLater \/ ScriptEnds

SpecPackage == InitP /\ [][NextP]_vars

----------------------------------------------------------------------------
\* Properties of the batch processor

ProcessedNames == [k \in DOMAIN processed_files |-> processed_files[k].input_file]
FailedNames == [k \in DOMAIN failed_files |-> failed_files[k].file]

Occurrences(list, x) == Cardinality({k \in DOMAIN list : list[k] = x})

RECURSIVE SumPresetCounts(_)
SumPresetCounts(list) ==
    IF list = <<>> THEN 0
    ELSE list[1].preset_count + SumPresetCounts(Tail(list))

\* list holds entries of whole, in the order they have in whole
InOrderOf(list, whole) ==
    \E pos \in [DOMAIN list -> DOMAIN whole] :
        /\ \A k \in DOMAIN list : whole[pos[k]] = list[k]
        /\ \A j, k \in DOMAIN list : j < k => pos[j] < pos[k]

\* C1: when batch_decode returns, every input file is in exactly one of
\* processed_files and failed_files, whatever its decode did (presets, no
\* presets, raised), so the two lengths add up to the number of inputs.
C1_EachInputOnce ==
    b_pc = "done" =>
        /\ Len(processed_files) + Len(failed_files) = Len(sysex_files)
        /\ \A i \in DOMAIN sysex_files :
               Occurrences(ProcessedNames, sysex_files[i])
                 + Occurrences(FailedNames, sysex_files[i]) = 1

\* a returned batch with a processed file of no presets beside a failed file
C1_Witness ==
    /\ b_pc = "done"
    /\ \E k \in DOMAIN processed_files : processed_files[k].preset_count = 0
    /\ \E k \in DOMAIN processed_files : processed_files[k].preset_count > 0
    /\ failed_files # <<>>

\* C2: a step that records a file as failed keeps the batch going and leaves
\* alone everything the other inputs' entries rest on: the entries recorded
\* so far, the preset total, and the content of every input still to come.
C2_FailureIsolated ==
    [][(b_pc = "loop" /\ Len(failed_files') = Len(failed_files) + 1) =>
          /\ b_pc' = "loop"
          /\ idx' = idx + 1
          /\ processed_files' = processed_files
          /\ total_presets' = total_presets
          /\ \A k \in (idx + 2)..Len(sysex_files) :
                 fs'[sysex_files[k]] = fs[sysex_files[k]]]_vars

\* C4: when batch_decode returns, total_presets is the sum of preset_count
\* over processed_files, and no failed file is among the processed ones.
C4_TotalIsSum ==
    b_pc = "done" =>
        /\ total_presets = SumPresetCounts(processed_files)
        /\ \A k \in DOMAIN failed_files :
               Occurrences(ProcessedNames, failed_files[k].file) = 0

\* a returned batch that counted presets and holds a file whose presets were
\* decoded but whose output could not be written
C4_Witness ==
    /\ b_pc = "done"
    /\ total_presets > 1
    /\ \E k \in DOMAIN failed_files : failed_files[k].error \in {"open", "dump"}

C6_NeverThrows == b_pc # "raised"

----------------------------------------------------------------------------
\* Properties of the analyzer

\* Number of start/end pairs of a left-to-right pass that opens a message at
\* the first start marker met outside a message and closes it at the first
\* end marker met inside one.
RECURSIVE PairsFrom(_, _, _)
PairsFrom(d, i, open) ==
    IF i > Len(d) THEN 0
    ELSE IF ~open /\ d[i] = StartMarker THEN PairsFrom(d, i + 1, TRUE)
    ELSE IF open /\ d[i] = EndMarker THEN 1 + PairsFrom(d, i + 1, FALSE)
    ELSE PairsFrom(d, i + 1, open)

GreedyPairs(d) == PairsFrom(d, 1, FALSE)

\* some start marker is followed by an end marker
HasPair(d) ==
    \E i, j \in DOMAIN d : i < j /\ d[i] = StartMarker /\ d[j] = EndMarker

\* C3: the analyzer reports exactly as many messages as the byte sequence
\* holds greedily paired start/end markers; noise and an unmatched trailing
\* start marker add none.
C3_ExactlyKMessages ==
    a_pc = "done" =>
        /\ Len(sysex_messages) = GreedyPairs(data)
        /\ message_count = GreedyPairs(data)

\* two messages found around noise, and a trailing start marker left alone
C3_Witness ==
    /\ a_pc = "done"
    /\ Len(sysex_messages) = 2
    /\ Len(data) > 0
    /\ data[Len(data)] = StartMarker
    /\ \E i \in DOMAIN data : data[i] \notin {StartMarker, EndMarker}

----------------------------------------------------------------------------
\* Properties of the parameter codec

\* descriptors that share A's byte and none of its bits
Siblings(A, schema) ==
    {B \in PackedFields \cup {schema[name] : name \in DOMAIN schema} :
        B.byte_offset = A.byte_offset /\ BitAnd(B.bit_mask, A.bit_mask) = 0}

\* C8: decoding the message that encode built from {name: v}, v in the
\* parameter's value_range, succeeds and yields raw value v for that name.
C8_RoundTrip ==
    (c_pc = "decoded" /\ c_values # <<>>) =>
        /\ c_out.error = ""
        /\ \A k \in DOMAIN c_values :
               c_out.raw[c_values[k].name] = c_values[k].value

\* the shipped schema's lfo1_amount encoded at the top of its range and decoded
C8_Witness ==
    /\ c_pc = "decoded"
    /\ c_schema = AccessVirusParameters
    /\ c_values = <<[name |-> "lfo1_amount", value |-> 127]>>
    /\ c_out.error = ""
    /\ c_out.raw["lfo1_amount"] = 127

\* C9: in the message encode built by writing parameter A, every descriptor
\* B sharing A's byte without sharing bits decodes to the raw value it had
\* before, and every bit of the byte outside A's mask is as it was.
C9_BitIsolation ==
    (c_values # <<>> /\ c_pc = "message") =>
        LET A   == c_schema[c_values[1].name]
            off == A.byte_offset
        IN  /\ \A B \in Siblings(A, c_schema) :
                   ExtractRaw(c_body[off], B) = ExtractRaw(c_template[off], B)
            /\ BitAnd(c_body[off], 255 - A.bit_mask)
                 = BitAnd(c_template[off], 255 - A.bit_mask)

\* A has been written into a byte where a sibling holds a non-zero value,
\* and the byte has changed
C9_Witness ==
    /\ c_values # <<>>
    /\ c_pc = "message"
    /\ LET A   == c_schema[c_values[1].name]
           off == A.byte_offset
       IN  /\ c_body[off] # c_template[off]
           /\ ExtractRaw(c_body[off], A) = c_values[1].value
           /\ \E B \in Siblings(A, c_schema) : ExtractRaw(c_body[off], B) > 1

\* C10: for every descriptor of the shipped schema, whatever byte a message
\* holds at its byte_offset, mask and shift give a raw value inside value_range.
C10_DescriptorInvariant ==
    (c_schema = AccessVirusParameters /\ c_pc \in {"message", "decoded"}) =>
        \A name \in DOMAIN c_schema :
            InRange(c_schema[name],
                    ExtractRaw(c_body[c_schema[name].byte_offset], c_schema[name]))

----------------------------------------------------------------------------
\* Properties of the schema registry

\* C11: once SysExLibrary() has made its initial schema load, with register
\* validating names, overlaps, offsets and the descriptor invariants,
\* 'access_virus' is among list_supported_synthesizers() and
\* get_decoder(ACCESS_VIRUS) returns a decoder.
C11_VirusRegistered ==
    (r_pc = "ready" /\ r_calls = 0)
    => /\ "access_virus" \in list_supported_synthesizers
       /\ get_decoder("access_virus") # None

\* C15: a register call that fails with SchemaValidationError, as an explicit
\* call or within the initial load, leaves both indexes as they were before
\* the call, and the schema it was given is returned by neither index.
C15_AllOrNothing ==
    /\ [](r_error = "SchemaValidationError"
            => /\ \A key \in DOMAIN r_by_key : r_by_key[key] # r_arg
               /\ \A id \in DOMAIN r_by_id : r_by_id[id] # r_arg)
    /\ [][r_error' = "SchemaValidationError"
            => (r_by_key' = r_by_key /\ r_by_id' = r_by_id)]_vars

\* a schema was refused while another schema is registered under its key and
\* its Device Identifier
C15_Witness ==
    /\ r_error = "SchemaValidationError"
    /\ r_calls >= 2
    /\ r_arg.key \in DOMAIN r_by_key
    /\ r_arg.device_id \in DOMAIN r_by_id

----------------------------------------------------------------------------
\* Properties of the analyzer's message list

\* C19: the recorded messages are numbered 1..n in stream order, do not
\* overlap and have increasing start offsets; each starts with 0xF0 at
\* start_offset, ends with 0xF7 at start_offset + length - 1, which is below
\* file_size, and holds no other 0xF7 before its last byte.
C19_MessagesWellFormed ==
    a_pc \in {"loop", "done"} =>
        \A k \in DOMAIN sysex_messages :
            LET m    == sysex_messages[k]
                last == m.start_offset + m.length - 1
            IN  /\ m.message_id = k
                /\ m.start_offset >= 0
                /\ last > m.start_offset
                /\ last < file_size
                /\ data[m.start_offset + 1] = StartMarker
                /\ data[last + 1] = EndMarker
                /\ \A i \in m.start_offset .. (last - 1) : data[i + 1] # EndMarker
                /\ k > 1 =>
                     sysex_messages[k - 1].start_offset
                        + sysex_messages[k - 1].length <= m.start_offset

\* two messages reported with bytes between them, the second one holding a
\* second start marker
C19_Witness ==
    /\ a_pc = "done"
    /\ Len(sysex_messages) = 2
    /\ sysex_messages[2].start_offset
         > sysex_messages[1].start_offset + sysex_messages[1].length
    /\ sysex_messages[2].length = 3
    /\ data[sysex_messages[2].start_offset + 2] = StartMarker

----------------------------------------------------------------------------
\* Properties of the batch loop

\* C20: each time the loop of batch_decode has handled the first j input
\* files, processed_files and failed_files together hold exactly those j
\* files, each once, and total_presets is the sum of preset_count over
\* processed_files.
C20_AccountingAfterEachFile ==
    b_pc = "loop" =>
        /\ Len(processed_files) + Len(failed_files) = idx
        /\ total_presets = SumPresetCounts(processed_files)
        /\ \A k \in 1..idx :
               Occurrences(ProcessedNames, sysex_files[k])
                   + Occurrences(FailedNames, sysex_files[k]) = 1

\* in the middle of a batch: files decoded, files failed, files still to do
C20_Witness ==
    /\ b_pc = "loop"
    /\ idx < Len(sysex_files)
    /\ Len(processed_files) >= 1
    /\ Len(failed_files) >= 2
    /\ total_presets >= 1


\* what batch_decode returns
BatchResult ==
    [processed_files |-> processed_files, failed_files |-> failed_files,
     total_presets |-> total_presets]

\* the result of a run over an existing directory without input files
EmptyRunResult ==
    [processed_files |-> <<>>, failed_files |-> <<>>, total_presets |-> 0]

\* C18: a batch_decode that failed as a whole, for want of a schema or of a
\* readable input directory, does not return what a successful run over an
\* empty directory returns.
C18_TotalFailureTold ==
    (b_pc = "done" /\ (~dir_exists \/ decoder = "none"))
    => BatchResult # EmptyRunResult

----------------------------------------------------------------------------
\* Properties of the framer against the analyzer

\* C12: on every byte stream the framer and the analyzer report the same
\* messages, the same number of them with the same start offsets and
\* lengths, and a trailing start marker without an end marker gives a message
\* in neither (the framer counts it as a warning).
C12_FramerMatchesAnalyzer ==
    (a_pc = "done" /\ f_pc = "done") =>
        /\ Len(f_messages) = Len(sysex_messages)
        /\ Len(f_messages) = message_count
        /\ \A k \in DOMAIN f_messages :
               /\ f_messages[k].start_offset = sysex_messages[k].start_offset
               /\ f_messages[k].length = sysex_messages[k].length
        /\ (Len(data) > 0 /\ data[Len(data)] = StartMarker) =>
               /\ f_warnings = 1
               /\ \A k \in DOMAIN sysex_messages :
                      sysex_messages[k].start_offset + sysex_messages[k].length
                          < Len(data)

\* two delimited regions and a truncated tail, scanned by both
C12_Witness ==
    /\ a_pc = "done"
    /\ f_pc = "done"
    /\ Len(f_messages) = 2
    /\ Len(sysex_messages) = 2
    /\ f_warnings = 1
    /\ data[Len(data)] = StartMarker
    /\ f_messages[2].length > 2

----------------------------------------------------------------------------
\* Properties of decode's checks of the message

\* C14: decode of a message shorter than the schema's total_length fails with
\* TruncatedMessageError, decode of a message of another Device Identifier
\* fails with SchemaMismatchError, a message that is both fails with one of
\* the two, and in each case no parameter value at all is returned.
C14_HeaderErrors ==
    (c_pc = "decoded" /\ c_values = <<>>) =>
        LET short == c_header.length < c_frame.total_length
            other == c_header.device_id # c_frame.device_id
        IN  /\ (short /\ ~other) => c_out.error = "TruncatedMessageError"
            /\ (other /\ ~short) => c_out.error = "SchemaMismatchError"
            /\ (short /\ other) =>
                   c_out.error \in {"TruncatedMessageError", "SchemaMismatchError"}
            /\ (short \/ other) => c_out.raw = <<>>
            /\ ~(short \/ other) =>
                   c_out.error \notin {"TruncatedMessageError", "SchemaMismatchError"}

\* a message one byte short and of another device has been refused
C14_Witness ==
    /\ c_pc = "decoded"
    /\ c_values = <<>>
    /\ c_header.length = c_frame.total_length - 1
    /\ c_header.device_id # c_frame.device_id
    /\ c_out.error = "TruncatedMessageError"
    /\ c_out.raw = <<>>

----------------------------------------------------------------------------
\* Properties of scenario B

LowNibble(byte) == BitAnd(byte, 15)

\* C13 as claimed: encoding normalized 1.0 for the parameter with range
\* [0,127], mask 0x0F and shift 4 into a byte whose low nibble is 0b0011
\* gives 0b1111_0011, and decode (mask, then shift right) of that message
\* gives back the range maximum.
C13_ScenarioB ==
    (/\ c_pc \in {"message", "decoded"}
     /\ c_schema["A"] = ScenarioBDescriptor
     /\ c_values[1].normalized = Normalized(1, 1)
     /\ LowNibble(c_template[0]) = 3)
    => /\ c_body[0] = 243
       /\ c_pc = "decoded" =>
            (c_out.error = "" /\ c_out.raw["A"] = ScenarioBDescriptor.value_range[2])

\* C13, amended: encoding normalized 1.0 for a parameter with range [0,15],
\* mask 0xF0 and shift 4 into a byte whose low nibble is 0b0011 gives
\* 0b1111_0011 (high nibble 15, the range maximum, low nibble kept), and
\* decode of that message gives back raw 15.
C13_HighNibble ==
    (/\ c_pc \in {"message", "decoded"}
     /\ c_schema["A"] = HighNibbleDescriptor
     /\ c_values[1].normalized = Normalized(1, 1)
     /\ LowNibble(c_template[0]) = 3)
    => /\ c_body[0] = 243
       /\ c_pc = "decoded" =>
            (c_out.error = "" /\ c_out.raw["A"] = HighNibbleDescriptor.value_range[2])

\* the high-nibble parameter encoded at 1.0 into 0b0000_0011 and decoded
C13_Witness ==
    /\ c_pc = "decoded"
    /\ c_schema["A"] = HighNibbleDescriptor
    /\ c_values[1].normalized = Normalized(1, 1)
    /\ c_template[0] = 3
    /\ c_body[0] = 243
    /\ c_out.raw["A"] = 15

----------------------------------------------------------------------------
\* Properties of the feature vector

\* the normalized value the preset holds for name, the sentinel when it
\* holds none
ValueOrSentinel(preset, name) ==
    IF \E k \in DOMAIN preset : preset[k].name = name
    THEN (CHOOSE d \in {preset[k] : k \in DOMAIN preset} : d.name = name).normalized_value
    ELSE Sentinel

\* C16: the feature vector of a decoded preset is as long as parameterOrder
\* and holds, at each position, the value of the parameter parameterOrder
\* names there, the sentinel when the preset lacks it, whatever the order in
\* which the preset's mapping is iterated.
C16_VectorFollowsOrder ==
    e_pc = "done" =>
        /\ Len(e_features) = Len(e_order)
        /\ \A k \in DOMAIN e_order :
               e_features[k] = ValueOrSentinel(e_preset, e_order[k])

----------------------------------------------------------------------------
\* Properties of the command line

\* C17: once the package is installed, sysex-decode, sysex-analyze and
\* sysex-batch are entry points on the path: each of them runs when typed.
C17_DocumentedCommandsInstalled ==
    k_project # "" =>
        /\ DocumentedCommands \subseteq k_installed
        /\ \A command \in DocumentedCommands :
               Outcome(command, k_installed) = "runs"

----------------------------------------------------------------------------
\* Properties of the candidate identifier

\* C28: in every message the analyzer records, manufacturer_id holds only
\* bytes lying strictly between the message's start marker and its end
\* marker: it begins after the 0xF0 and stops before the closing 0xF7,
\* whatever the message's length.
C28_IdentifierInsideBody ==
    a_pc \in {"loop", "done"} =>
        \A k \in DOMAIN sysex_messages :
            LET m == sysex_messages[k]
            IN  /\ Len(m.manufacturer_id) <= m.length - 2
                /\ \A i \in DOMAIN m.manufacturer_id :
                       /\ m.manufacturer_id[i] = data[m.start_offset + i + 1]
                       /\ m.manufacturer_id[i] # EndMarker

----------------------------------------------------------------------------
\* Properties of the output files

\* C24: when batch_decode returns, every processed input that decoded to at
\* least one preset has its output file, and the file holds that input's
\* presets: no other input's output has replaced it, inputs sharing a stem
\* included.
C24_OwnOutputKept ==
    (b_pc = "done" /\ output_format = "json") =>
        \A k \in DOMAIN processed_files :
            LET p == processed_files[k]
            IN  p.preset_count > 0 =>
                    /\ OutputPath(p.input_file) \in DOMAIN fs
                    /\ fs[OutputPath(p.input_file)].holds = p.input_file
                    /\ fs[OutputPath(p.input_file)].n = p.preset_count

----------------------------------------------------------------------------
\* Properties of a second run

\* C23: the second batch_decode on a directory lists the same input files as
\* the first: no output file a run wrote is among the inputs of the next run.
C23_SameInputsTwice ==
    (b_earlier # <<>> /\ b_pc \in {"loop", "done"}) =>
        /\ Range(sysex_files) = b_earlier[1]
        /\ \A k \in DOMAIN sysex_files : fs[sysex_files[k]].holds = NoFile

----------------------------------------------------------------------------
\* Properties of the dataset store

\* C21: whatever the interleaving of updatePreprocessingJob and
\* startPreprocessing.fulfilled actions, preprocessingJobs holds at most one
\* entry per job id.
C21_OneEntryPerJob ==
    \A j, k \in DOMAIN ds_preprocessingJobs :
        ds_preprocessingJobs[j].id = ds_preprocessingJobs[k].id => j = k

\* C22: loading is true in every state in which a fetchDatasets or
\* uploadDataset request is in flight, and false in every state in which
\* none is.
C22_LoadingWhileInFlight ==
    ds_loading = (InFlight("fetchDatasets") \cup InFlight("uploadDataset") # {})

----------------------------------------------------------------------------
\* Properties of the model store

\* C29: a currentModel that is not null equals the entry of models with its
\* id, whenever models holds one: an updateModel for the selected model
\* shows in currentModel.
C29_CurrentModelInSync ==
    ms_currentModel # NullModel =>
        \A k \in DOMAIN ms_models :
            ms_models[k].id = ms_currentModel.id => ms_models[k] = ms_currentModel

----------------------------------------------------------------------------
\* Properties of the navigation

\* C25: every path the Sidebar navigates to on a click of an item with a
\* path is matched by a route of App other than the wildcard: what is
\* rendered after the click is never NotFound.
C25_EveryLeafRouted ==
    /\ ProperMatches(n_pathname) # {}
    /\ n_element # "NotFound"

----------------------------------------------------------------------------
\* Properties of the startup script

\* C26: the frontend is started only after a probe of the backend has
\* succeeded; when the 30th probe fails the script exits with status 1, the
\* frontend has never been started, and cleanup, run by the EXIT trap, has
\* issued a kill for the backend process the script started.
C26_FrontendAfterProbe ==
    /\ [](s_frontend # "none" => s_probed)
    /\ [](s_FRONTEND_PID # "" => s_probed)
    /\ [](s_status = 1 =>
            /\ s_pc = "exited"
            /\ s_i = ProbeCount
            /\ s_frontend = "none"
            /\ Kill("EXIT", "backend") \in s_signalled
            /\ s_backend \notin {"starting", "up"})
    /\ [][(s_pc = "probe" /\ s_i = ProbeCount /\ ~s_probed' /\ s_pc' # "probe")
            => (s_pc' = "exited" /\ s_status' = 1)]_vars

\* the 30th probe has failed with the backend process still there to signal
C26_Witness ==
    /\ s_pc = "exited"
    /\ s_status = 1
    /\ s_i = ProbeCount
    /\ s_interrupts = 0
    /\ s_backend = "gone"
    /\ s_signalled = {Kill("EXIT", "backend")}

----------------------------------------------------------------------------
\* Properties of the package creation script

\* C27: a section missing from package_files.py is reported and the script
\* goes on: when the script has ended, core.py, analyzer.py, batch.py, the
\* config, the tests, pyproject.toml, install.sh and build.sh have been
\* created, whatever sections were missing.
C27_MissingSectionGoesOn ==
    p_status # -1 =>
        /\ \A name \in Range(ExtractSteps) :
               p_package[name] = "missing" => name \in p_reported
        /\ Range(LaterSteps) \subseteq DOMAIN p_files

====
